---- MODULE Spec2Model ----
(***************************************************************************)
(* Hybrid retrieval engine of yokoyamatoyou/onokomu:                       *)
(*   src/src/rag/rag_engine.py          RAGEngine                          *)
(*   src/src/rag/llm_factory.py         LLMFactory and the provider wrappers*)
(*   src/src/vector_store/tenant_isolation.py  TenantVectorStore.search    *)
(*   src/src/core/embedding_client.py   EmbeddingClient.get_embedding      *)
(*   src/src/core/document_manager.py   DocumentManager.get_chunks_by_ids, *)
(*                                      _update_bm25_index, delete_document*)
(*   src/src/chat/chat_manager.py       ChatManager (session-storage mode) *)
(*   src/src/chat/usage_tracker.py      UsageTracker.record                *)
(*                                                                         *)
(* Chunk ids are the strings "c1", "c2", ... and are written 1, 2, ...     *)
(* Scores are Python floats; the model computes with exact fractions       *)
(* <<numerator, denominator>>, so rounding is not modelled.                *)
(***************************************************************************)
EXTENDS Integers, Sequences, FiniteSets, TLC

\* ------------------------------------------------------------------ bounds
NumChunks == 2
MaxScore == 2
MaxHits == 2
MaxTopK == 2

ChunkIds == 1..NumChunks
Scores == 0..MaxScore

\* --------------------------------------------------------------- fractions
RECURSIVE GCD(_, _)
GCD(a, b) == IF b = 0 THEN a ELSE GCD(b, a % b)

Frac(n, d) == LET g == GCD(n, d) IN <<n \div g, d \div g>>
FracAdd(p, q) == Frac(p[1] * q[2] + q[1] * p[2], p[2] * q[2])
FracMul(p, q) == Frac(p[1] * q[1], p[2] * q[2])
FracLess(p, q) == p[1] * q[2] < q[1] * p[2]
FracLeq(p, q) == p[1] * q[2] <= q[1] * p[2]
Zero == <<0, 1>>
One == <<1, 1>>

\* ------------------------------------------------------------ Python lists
SeqsUpTo(S, n) == UNION {[1..k -> S] : k \in 0..n}
Take(s, n) == SubSeq(s, 1, IF n < Len(s) THEN n ELSE Len(s))
Range(s) == {s[i] : i \in 1..Len(s)}

RECURSIVE MaxOf(_)
MaxOf(s) ==
    IF Len(s) = 1 THEN s[1]
    ELSE LET m == MaxOf(Tail(s)) IN IF s[1] >= m THEN s[1] ELSE m

\* A hit is a dict; the key "score" may be missing (TenantVectorStore.search
\* builds {"id", "distance"}).
HasScore(res) == "score" \in DOMAIN res
ScoredHit(i, s) == [id |-> i, score |-> s]
DistanceHit(i, d) == [id |-> i, distance |-> d]

\* ---------------------------------------------------- RAGEngine._fuse_results
\* normalize without the "if results else 1" guard: max() of an empty list
\* raises ValueError.
normalize_unguarded(results) ==
    IF results = <<>> THEN [exc |-> "ValueError", val |-> <<>>]
    ELSE IF \E i \in 1..Len(results) : ~HasScore(results[i])
    THEN [exc |-> "KeyError", val |-> <<>>]
    ELSE LET raw == MaxOf([i \in 1..Len(results) |-> results[i].score])
             max_score == IF raw = 0 THEN 1 ELSE raw
         IN [exc |-> "none",
             val |-> [i \in 1..Len(results) |->
                        [id |-> results[i].id,
                         score |-> Frac(results[i].score, max_score)]]]

\* normalize without the division of line 95.
normalize_raw(results) ==
    IF \E i \in 1..Len(results) : ~HasScore(results[i])
    THEN [exc |-> "KeyError", val |-> <<>>]
    ELSE [exc |-> "none",
          val |-> [i \in 1..Len(results) |->
                     [id |-> results[i].id, score |-> Frac(results[i].score, 1)]]]

\* normalize (rag_engine.py 91-96): every score divided by the list's maximum
\* (1 for an empty list or a zero maximum); res["score"] raises KeyError for a
\* hit without that key.
normalize(results) ==
    IF \E i \in 1..Len(results) : ~HasScore(results[i])
    THEN [exc |-> "KeyError", val |-> <<>>]
    ELSE LET raw == IF Len(results) > 0
                    THEN MaxOf([i \in 1..Len(results) |-> results[i].score])
                    ELSE 1
             max_score == IF raw = 0 THEN 1 ELSE raw
         IN [exc |-> "none",
             val |-> [i \in 1..Len(results) |->
                        [id |-> results[i].id,
                         score |-> Frac(results[i].score, max_score)]]]

\* scores[id] = scores.get(id, 0) + x on an insertion-ordered dict, kept as a
\* sequence of <<id, value>> items.
DictHas(d, k) == \E i \in 1..Len(d) : d[i][1] = k
DictGet(d, k, default) ==
    IF DictHas(d, k)
    THEN d[CHOOSE i \in 1..Len(d) : d[i][1] = k][2]
    ELSE default
\* scores kept as a list of items instead of a dict: every hit appends.
DictAddTo_append(d, k, x) == Append(d, <<k, FracAdd(Zero, x)>>)
DictAddTo(d, k, x) ==
    IF DictHas(d, k)
    THEN [i \in 1..Len(d) |-> IF d[i][1] = k THEN <<k, FracAdd(d[i][2], x)>> ELSE d[i]]
    ELSE Append(d, <<k, FracAdd(Zero, x)>>)

RECURSIVE Accumulate(_, _, _)
Accumulate(d, results, weight) ==
    IF results = <<>> THEN d
    ELSE Accumulate(DictAddTo(d, Head(results).id, FracMul(Head(results).score, weight)),
                    Tail(results), weight)

\* sorted without reverse=True: ascending.
RECURSIVE InsertDesc_ascending(_, _)
InsertDesc_ascending(sorted, item) ==
    IF sorted = <<>> THEN <<item>>
    ELSE IF FracLess(item[2], Head(sorted)[2])
         THEN <<item>> \o sorted
         ELSE <<Head(sorted)>> \o InsertDesc_ascending(Tail(sorted), item)

\* sorted(items, key=value, reverse=True): stable, equal values keep their
\* insertion order.
RECURSIVE InsertDesc(_, _)
InsertDesc(sorted, item) ==
    IF sorted = <<>> THEN <<item>>
    ELSE IF FracLess(Head(sorted)[2], item[2])
         THEN <<item>> \o sorted
         ELSE <<Head(sorted)>> \o InsertDesc(Tail(sorted), item)

RECURSIVE SortedDesc(_)
SortedDesc(items) ==
    IF items = <<>> THEN <<>>
    ELSE InsertDesc(SortedDesc(SubSeq(items, 1, Len(items) - 1)), items[Len(items)])

\* the two weights applied to the wrong lists.
FuseScores_swapped(vector_results, bm25_results, vector_weight, bm25_weight) ==
    Accumulate(Accumulate(<<>>, vector_results, bm25_weight), bm25_results, vector_weight)

FuseScores(vector_results, bm25_results, vector_weight, bm25_weight) ==
    Accumulate(Accumulate(<<>>, vector_results, vector_weight), bm25_results, bm25_weight)

_fuse_results(vector_results, bm25_results, top_k, vector_weight, bm25_weight) ==
    LET nv == normalize(vector_results)
        nb == IF nv.exc = "none" THEN normalize(bm25_results) ELSE nv
    IN IF nv.exc # "none" THEN [exc |-> nv.exc, val |-> <<>>]
       ELSE IF nb.exc # "none" THEN [exc |-> nb.exc, val |-> <<>>]
       ELSE LET sorted_chunks == SortedDesc(FuseScores(nv.val, nb.val, vector_weight, bm25_weight))
            IN [exc |-> "none",
                val |-> [i \in 1..Len(Take(sorted_chunks, top_k)) |-> sorted_chunks[i][1]]]

\* ----------------------------------------------------------- program values
TenantId == <<"test_tenant">>
Queries == {<<"q1">>}
\* "gpt-5-mini" is query's default llm_model_name; it is not in
\* LLMFactory._model_to_provider.
ModelNames == {"gpt-4.1", "gpt-5-mini"}
ModelTexts == {"text1"}

NoInfoAnswer == "NO_RELEVANT_INFORMATION_FOUND"   \* "関連する情報が見つかりませんでした。"
LLMInitFailedAnswer == "LLM_INIT_FAILED"          \* "LLMの初期化に失敗しました。"
OpenAIErrorAnswer == "ERROR_OPENAI_API_CALL_FAILED" \* f"エラー: OpenAI APIの呼び出しに失敗しました。({e})"
GoogleMockAnswer == "MOCK_GOOGLE_RESPONSE_gemini-2.5-flash"
AnthropicMockAnswer == "MOCK_ANTHROPIC_RESPONSE_sonnet-4"

DefaultNumNeighbors == 5
DefaultTopK == 5
DefaultVectorWeight == <<7, 10>>
DefaultBm25Weight == <<3, 10>>

\* Firestore document of a chunk (chunk_processor.py 67-74 without the vector).
ChunkDoc(i) == [id |-> i, text |-> i, metadata |-> [chunk_number |-> i]]

\* ----------------------------------------------------------------- LLMFactory
_model_to_provider(model_name) ==
    CASE model_name \in {"gpt-4.1", "gpt-4.1-mini", "gpt-4.1-nano"} -> "openai"
      [] model_name \in {"gemini-2.5-pro", "gemini-2.5-flash"} -> "google"
      [] model_name \in {"opus-4.1", "sonnet-4"} -> "anthropic"
      [] OTHER -> "none"

\* get_model: None for a name without provider, and None when the wrapper's
\* constructor raises (BaseLLM.__init__ raises ValueError without API key).
get_model(model_name, api_key_present) ==
    LET provider_name == _model_to_provider(model_name)
    IN IF provider_name = "none" THEN "None"
       ELSE IF ~api_key_present THEN "None"
       ELSE provider_name

\* invoke(messages) is called without a model keyword: each wrapper uses its
\* default model.
DefaultModelOf(llm) ==
    CASE llm = "openai" -> "gpt-4.1-mini"
      [] llm = "google" -> "gemini-2.5-flash"
      [] llm = "anthropic" -> "sonnet-4"

\* invoke without the try/except around the API call.
invoke_uncaught(llm, api) ==
    CASE llm = "openai" ->
            IF api = "raise"
            THEN [exc |-> "APIError", val |-> ""]
            ELSE [exc |-> "none", val |-> api]
      [] llm = "google" -> [exc |-> "none", val |-> GoogleMockAnswer]
      [] llm = "anthropic" -> [exc |-> "none", val |-> AnthropicMockAnswer]

\* api is what client.chat.completions.create does: "raise" or the text.
invoke(llm, api) ==
    CASE llm = "openai" ->
            IF api = "raise"
            THEN [exc |-> "none", val |-> OpenAIErrorAnswer]
            ELSE [exc |-> "none", val |-> api]
      [] llm = "google" -> [exc |-> "none", val |-> GoogleMockAnswer]
      [] llm = "anthropic" -> [exc |-> "none", val |-> AnthropicMockAnswer]

\* ------------------------------------------------------------------ the cache
\* _generate_cache_key: sha256 of f"{tenant_id}_{query}_{model_name}"; the
\* digest is represented by the string it is taken of. A string is the
\* sequence of its pieces, "_" being a piece of its own; the names of
\* ModelNames are one piece each.
_generate_cache_key(tenant_id, query, model_name) ==
    [sha256 |-> tenant_id \o <<"_">> \o query \o <<"_">> \o model_name]

\* The cache file of a key (lines 39, 240, 255): <cache_dir>/<key>.json.
CacheFile(tenant_id, cache_key) == [dir |-> <<"./rag_cache_">> \o tenant_id, name |-> cache_key]

CacheKeys == {_generate_cache_key(TenantId, q, <<m>>) : q \in Queries, m \in ModelNames}

\* json.dump / json.load of a result dict: a JSON document is a tree of
\* <<type, payload>> nodes.
JsonChunk(c) ==
    <<"object", [id |-> <<"string", c.id>>, text |-> <<"string", c.text>>,
                 metadata |-> <<"object", [chunk_number |-> <<"number", c.metadata.chunk_number>>]>>]>>
PyChunk(j) ==
    [id |-> j[2].id[2], text |-> j[2].text[2],
     metadata |-> [chunk_number |-> j[2].metadata[2].chunk_number[2]]]

json_dump(result) ==
    <<"object",
      [answer |-> <<"string", result.answer>>,
       context |-> <<"array", [i \in 1..Len(result.context) |-> JsonChunk(result.context[i])]>>,
       metadata |-> <<"object",
          [retrieved_chunk_ids |-> <<"array", [i \in 1..Len(result.metadata.retrieved_chunk_ids) |->
                                      <<"string", result.metadata.retrieved_chunk_ids[i]>>]>>,
           llm_model_used |-> <<"string", result.metadata.llm_model_used>>,
           response_time |-> <<"number", result.metadata.response_time>>]>>]>>

json_load(text) ==
    [answer |-> text[2].answer[2],
     context |-> [i \in 1..Len(text[2].context[2]) |-> PyChunk(text[2].context[2][i])],
     metadata |->
        [retrieved_chunk_ids |-> [i \in 1..Len(text[2].metadata[2].retrieved_chunk_ids[2]) |->
                                    text[2].metadata[2].retrieved_chunk_ids[2][i][2]],
         llm_model_used |-> text[2].metadata[2].llm_model_used[2],
         response_time |-> text[2].metadata[2].response_time[2]]]

AbsentFile == [kind |-> "absent"]
CorruptFile == [kind |-> "corrupt"]
JsonFile(text) == [kind |-> "json", text |-> text]

\* _get_cached_result looking for a file name that _cache_result never writes.
_get_cached_result_wrong_path(caching, files, cache_key, read_ok) ==
    [found |-> FALSE, exc |-> "none"]

\* _get_cached_result without the try/except of lines 242-246: the error of
\* open or json.load leaves the function.
_get_cached_result_no_except(caching, files, cache_key, read_ok) ==
    IF ~caching THEN [found |-> FALSE, exc |-> "none"]
    ELSE IF files[cache_key].kind = "absent" THEN [found |-> FALSE, exc |-> "none"]
    ELSE IF files[cache_key].kind = "corrupt" THEN [found |-> FALSE, exc |-> "JSONDecodeError"]
    ELSE IF ~read_ok THEN [found |-> FALSE, exc |-> "OSError"]
    ELSE [found |-> TRUE, exc |-> "none", val |-> json_load(files[cache_key].text)]

\* _get_cached_result: None when caching is off, the file is missing, or
\* open/json.load raises (read_ok is the environment's part of that); the
\* function itself never raises.
_get_cached_result(caching, files, cache_key, read_ok) ==
    IF ~caching THEN [found |-> FALSE, exc |-> "none"]
    ELSE IF files[cache_key].kind = "absent" THEN [found |-> FALSE, exc |-> "none"]
    ELSE IF files[cache_key].kind = "corrupt" \/ ~read_ok THEN [found |-> FALSE, exc |-> "none"]
    ELSE [found |-> TRUE, exc |-> "none", val |-> json_load(files[cache_key].text)]

\* _cache_result storing the result without its context.
_cache_result_no_context(caching, files, cache_key, result, write) ==
    IF ~caching THEN files
    ELSE CASE write = "ok" ->
                [files EXCEPT ![cache_key] = JsonFile(json_dump([result EXCEPT !.context = <<>>]))]
           [] write = "open_fails" -> files
           [] write = "dump_fails" -> [files EXCEPT ![cache_key] = CorruptFile]

\* _cache_result: write is "ok", "open_fails" (file untouched) or
\* "dump_fails" (file truncated or partly written); every error is swallowed.
_cache_result(caching, files, cache_key, result, write) ==
    IF ~caching THEN files
    ELSE CASE write = "ok" -> [files EXCEPT ![cache_key] = JsonFile(json_dump(result))]
           [] write = "open_fails" -> files
           [] write = "dump_fails" -> [files EXCEPT ![cache_key] = CorruptFile]

\* ---------------------------------------------------------------- the engine
VARIABLES
    enable_caching,       \* RAGEngine.enable_caching
    endpoint,             \* TenantVectorStore.endpoint is not None
    cache_files,          \* ./rag_cache_<tenant>/<key>.json
    bm25_index_data,      \* RAGEngine.bm25_index_data
    pc,                   \* position of the running query
    user_query, llm_model_name,
    elapsed,              \* time.time() - start_time, in steps
    future_vector, future_bm25,
    retrieved_chunk_ids, retrieved_chunks, answer,
    ret,                  \* what query gave its caller
    calls,                \* calls made by the running query
    files_at_start,       \* cache_files when the running query started
    last_written,         \* per key, the result whose cache write succeeded last
    fz_vector, fz_bm25, fz_top_k, fz_weights, fz_ret,
    fz_normalized,        \* the caller's two lists after the call: normalize writes into the hit dicts (line 95)
    px_bm25,              \* a call of _bm25_search: arguments and result
    px_chunks,            \* a call of _parallel_chunk_retrieval: arguments and result
    fs_docs,              \* Firestore tenants/<tenant>/documents: status per document id
    fs_chunks,            \* Firestore tenants/<tenant>/chunks: document_id per chunk id
    index_blob,           \* GCS bm25_indices/<tenant>/index.pkl
    dm_ret,               \* what the last DocumentManager call did
    chat_sessions,        \* st.session_state["chat_sessions_<tenant>"]
    chat_issued,          \* session ids uuid4 has produced so far
    chat_ret,             \* what the last ChatManager call did
    px_dedup,             \* a call of _deduplicate_results: arguments and result
    px_keys,              \* two calls of _generate_cache_key: arguments and results
    usage_doc,            \* Firestore chat_token_usage/<email>:<day>
    usage_start,          \* that document before the first record call
    usage_proc            \* per caller of UsageTracker.record: position, arguments, snapshot, result

fzvars == <<fz_vector, fz_bm25, fz_top_k, fz_weights, fz_ret, fz_normalized>>
pxvars == <<px_bm25, px_chunks>>
dmvars == <<fs_docs, fs_chunks, index_blob, dm_ret>>
chatvars == <<chat_sessions, chat_issued, chat_ret>>
sidevars == <<px_dedup, px_keys, usage_doc, usage_start, usage_proc>>
\* State outside the engine.
outside == <<fzvars, pxvars, dmvars, chatvars, sidevars>>
engine == <<enable_caching, endpoint, cache_files, bm25_index_data, last_written>>
locals == <<user_query, llm_model_name, elapsed, future_vector, future_bm25,
            retrieved_chunk_ids, retrieved_chunks, answer, ret, calls, files_at_start>>
vars == <<engine, pc, locals, outside>>

\* Attributes assigned by RAGEngine.__init__ (rag_engine.py 25-40).
EngineAttributes ==
    {"logger", "tenant_id", "enable_caching", "doc_manager", "vector_store",
     "llm_factory", "storage_client", "gcs_bucket_name", "bm25_index_path",
     "bm25_index_data", "cache_dir"}

NotLoaded == [loaded |-> FALSE, bm25 |-> FALSE, chunk_ids |-> <<>>]
EmptyIndex == [loaded |-> TRUE, bm25 |-> FALSE, chunk_ids |-> <<>>]   \* {"bm25": None, "chunk_ids": []}
LoadedIndex(ids) == [loaded |-> TRUE, bm25 |-> TRUE, chunk_ids |-> ids]

Pending == [st |-> "pending", exc |-> "none", val |-> <<>>]
NoFuture == [st |-> "none", exc |-> "none", val |-> <<>>]
Completed(v) == [st |-> "done", exc |-> "none", val |-> v]
Raised(e) == [st |-> "done", exc |-> e, val |-> <<>>]
FutureOf(r) == IF r.exc = "none" THEN Completed(r.val) ELSE Raised(r.exc)

\* calls: the calls the running query has made, and what the services it
\* called did (embedding, fetched, llm, api, cache_read, write).
NoCalls == [load |-> 0, bm25 |-> 0, search |-> <<>>, get_chunks |-> <<>>,
            get_model |-> 0, invoke |-> <<>>, cache_write |-> 0,
            cache_read |-> "notcalled", embedding |-> "notcalled", fetched |-> <<>>,
            llm |-> "notcalled", api |-> "notcalled", write |-> "notcalled"]
NothingWritten == [kind |-> "none"]
Written(r) == [kind |-> "result", result |-> r]
NoReturn == [kind |-> "none"]
Returned(r, from) == [kind |-> "returned", result |-> r, from |-> from]
RaisedToCaller(e) == [kind |-> "raised", exc |-> e]

FreshLocals ==
    /\ user_query = <<>>
    /\ llm_model_name = ""
    /\ elapsed = 0
    /\ future_vector = NoFuture
    /\ future_bm25 = NoFuture
    /\ retrieved_chunk_ids = <<>>
    /\ retrieved_chunks = <<>>
    /\ answer = ""
    /\ ret = NoReturn
    /\ calls = NoCalls

FuseIdle ==
    /\ fz_vector = <<>>
    /\ fz_bm25 = <<>>
    /\ fz_top_k = 0
    /\ fz_weights = <<DefaultVectorWeight, DefaultBm25Weight>>
    /\ fz_ret = [exc |-> "notcalled", val |-> <<>>]
    /\ fz_normalized = <<>>
    /\ px_bm25 = [called |-> FALSE]
    /\ px_chunks = [called |-> FALSE]

\* ------------------------------------------------ Firestore, GCS, session state
MaxDocs == 2
MaxSessions == 2
MaxMessages == 2
DocIds == 1..MaxDocs
SessionIds == 1..MaxSessions
NoDoc == 0

AbsentBlob == [kind |-> "absent"]
IndexBlob(ids, n) == [kind |-> "index", chunk_ids |-> ids, corpus_len |-> n]
NoDmCall == [op |-> "none"]
NoChatCall == [op |-> "none"]

StoreIdle ==
    /\ fs_docs = [d \in DocIds |-> "absent"]
    /\ fs_chunks = [c \in ChunkIds |-> NoDoc]
    /\ index_blob = AbsentBlob
    /\ dm_ret = NoDmCall
ChatIdle ==
    /\ chat_sessions = [s \in SessionIds |-> [exists |-> FALSE, user_id |-> "", messages |-> <<>>]]
    /\ chat_issued = {}
    /\ chat_ret = NoChatCall

\* ------------------------------------------------------------- UsageTracker
NumProcs == 2
MaxTokens == 1
Procs == 1..NumProcs
NoUsageDoc == [exists |-> FALSE, input_tokens |-> 0, output_tokens |-> 0]
UsageDoc(i, o) == [exists |-> TRUE, input_tokens |-> i, output_tokens |-> o]
NotRecording == [pc |-> "idle"]

SideIdle ==
    /\ px_dedup = [called |-> FALSE]
    /\ px_keys = [called |-> FALSE]
    /\ usage_doc = NoUsageDoc
    /\ usage_start = NoUsageDoc
    /\ usage_proc = [p \in Procs |-> NotRecording]

Init ==
    /\ StoreIdle
    /\ ChatIdle
    /\ SideIdle
    /\ enable_caching \in BOOLEAN
    /\ endpoint \in BOOLEAN
    /\ cache_files = [k \in CacheKeys |-> AbsentFile]
    /\ last_written = [k \in CacheKeys |-> NothingWritten]
    /\ bm25_index_data = NotLoaded
    /\ pc = "Idle"
    /\ FreshLocals
    /\ files_at_start = cache_files
    /\ FuseIdle

CacheKey == _generate_cache_key(TenantId, user_query, <<llm_model_name>>)

\* query, lines 110-115.
QueryStart(q, m) ==
    /\ pc = "Idle"
    /\ user_query' = q
    /\ llm_model_name' = m
    /\ elapsed' = 0
    /\ future_vector' = NoFuture
    /\ future_bm25' = NoFuture
    /\ retrieved_chunk_ids' = <<>>
    /\ retrieved_chunks' = <<>>
    /\ answer' = ""
    /\ ret' = NoReturn
    /\ calls' = NoCalls
    /\ files_at_start' = cache_files
    /\ pc' = "CacheCheck"
    /\ UNCHANGED <<engine, outside>>

\* query, lines 117-124.
CacheCheck(read_ok) ==
    /\ pc = "CacheCheck"
    /\ LET cached_result == _get_cached_result(enable_caching, cache_files, CacheKey, read_ok)
       IN IF cached_result.exc # "none"
          THEN /\ ret' = RaisedToCaller(cached_result.exc)
               /\ pc' = "Done"
          ELSE IF cached_result.found
          THEN /\ ret' = Returned([cached_result.val EXCEPT !.metadata.response_time = elapsed + 1],
                                  "cache")
               /\ pc' = "Done"
          ELSE /\ ret' = ret
               /\ pc' = "LoadIndex"
    /\ elapsed' = elapsed + 1
    /\ calls' = [calls EXCEPT !.cache_read =
                    IF ~enable_caching THEN "notcalled"
                    ELSE IF cache_files[CacheKey].kind = "absent" THEN "absent"
                    ELSE IF cache_files[CacheKey].kind = "corrupt" \/ ~read_ok THEN "error"
                    ELSE "ok"]
    /\ UNCHANGED <<engine, user_query, llm_model_name, future_vector, future_bm25,
                   retrieved_chunk_ids, retrieved_chunks, answer, files_at_start, outside>>

\* Ascending id lists: the chunk_ids of a pickled index.
RECURSIVE AscendingSeq(_)
AscendingSeq(S) ==
    IF S = {} THEN <<>>
    ELSE LET m == CHOOSE x \in S : \A y \in S : x <= y
         IN <<m>> \o AscendingSeq(S \ {m})
IndexIdLists == {AscendingSeq(1..k) : k \in 1..NumChunks}

\* _load_bm25_index (lines 42-60); blob is "missing", "error" (any exception
\* while loading) or the chunk_ids of the pickled index.
LoadIndex(blob) ==
    /\ pc = "LoadIndex"
    /\ IF bm25_index_data.loaded
       THEN UNCHANGED bm25_index_data
       ELSE bm25_index_data' =
              IF blob.kind \in {"missing", "error"} THEN EmptyIndex ELSE LoadedIndex(blob.chunk_ids)
    /\ calls' = [calls EXCEPT !.load = @ + 1]
    /\ future_vector' = Pending
    /\ future_bm25' = Pending
    /\ elapsed' = elapsed + 1
    /\ pc' = "Retrieve"
    /\ UNCHANGED <<enable_caching, endpoint, cache_files, last_written, user_query, llm_model_name,
                   retrieved_chunk_ids, retrieved_chunks, answer, ret, files_at_start, outside>>

\* TenantVectorStore.search (tenant_isolation.py 79-105): [] without endpoint;
\* get_embedding re-raises the embedding API's exception; each neighbour
\* becomes {"id", "distance"}.
EmbeddingAPIError == "EmbeddingAPIError"
search(has_endpoint, embedding, neighbors, num_neighbors) ==
    IF ~has_endpoint THEN Completed(<<>>)
    ELSE IF embedding = "raise" THEN Raised(EmbeddingAPIError)
    ELSE Completed([i \in 1..Len(Take(neighbors, num_neighbors)) |-> DistanceHit(neighbors[i], 1)])


\* _parallel_vector_search whose except clause swallows the retry's exception.
_parallel_vector_search_swallow(has_endpoint, embedding, neighbors) ==
    LET r == search(has_endpoint, embedding, neighbors, DefaultNumNeighbors)
    IN IF r.exc # "none" THEN Completed(<<>>) ELSE r

\* _deduplicate_results (lines 217-228): the first hit seen of every id is
\* kept, then the kept hits are sorted by x.get("score", 0), descending and
\* stable.
ScoreOrZero(result) == IF HasScore(result) THEN result.score ELSE 0

RECURSIVE FirstSeen(_, _)
FirstSeen(results, seen_ids) ==
    IF results = <<>> THEN <<>>
    ELSE IF Head(results).id \in seen_ids THEN FirstSeen(Tail(results), seen_ids)
    ELSE <<Head(results)>> \o FirstSeen(Tail(results), seen_ids \cup {Head(results).id})

_deduplicate_results(results) ==
    LET unique_results == FirstSeen(results, {})
        keyed == [i \in 1..Len(unique_results) |->
                    <<unique_results[i], <<ScoreOrZero(unique_results[i]), 1>>>>]
        sorted == SortedDesc(keyed)
    IN [i \in 1..Len(sorted) |-> sorted[i][1]]

\* results.extend(search_result) for each completed future (line 178), in the
\* order of completion.
RECURSIVE Extend(_)
Extend(parts) == IF parts = <<>> THEN <<>> ELSE Head(parts) \o Extend(Tail(parts))

\* The breadths submitted at lines 169-171, and the cut of line 184.
SubmittedBreadths == <<5, 3, 7>>
MergeTopK == 5

\* _parallel_vector_search (lines 163-188). self.max_workers is read at line
\* 167 before anything is submitted; RAGEngine has no such attribute, so the
\* try body raises AttributeError and the except clause (186-188) runs the one
\* synchronous search, whose exception is not caught. The try body (168-184)
\* would extend results by every breadth's hits, a failed breadth adding
\* nothing, and return the first five of _deduplicate_results(results).
_parallel_vector_search(has_endpoint, embedding, neighbors) ==
    IF "max_workers" \notin EngineAttributes
    THEN search(has_endpoint, embedding, neighbors, DefaultNumNeighbors)
    ELSE LET parts == [k \in 1..Len(SubmittedBreadths) |->
                         search(has_endpoint, embedding, neighbors, SubmittedBreadths[k]).val]
         IN Completed(Take(_deduplicate_results(Extend(parts)), MergeTopK))

\* The vector task of _hybrid_search (line 65). embedding is what the remote
\* calls of the search do: "ok", "raise", or "slow" (the call has not returned
\* when 10 seconds, the timeout of line 175, have passed). The one search of
\* line 188 is synchronous and has no timeout: while it is outstanding the task
\* has no result.
VectorTask(embedding, neighbors) ==
    /\ pc = "Retrieve"
    /\ future_vector = Pending
    /\ calls.search = <<>>
    /\ future_vector' = IF endpoint /\ embedding = "slow"
                        THEN Pending
                        ELSE _parallel_vector_search(endpoint, embedding, neighbors)
    /\ calls' = [calls EXCEPT !.search = Append(@, DefaultNumNeighbors),
                              !.embedding = IF endpoint THEN embedding ELSE "notcalled"]
    /\ UNCHANGED <<engine, pc, user_query, llm_model_name, elapsed, future_bm25,
                   retrieved_chunk_ids, retrieved_chunks, answer, ret, files_at_start, outside>>

\* The outstanding search returns or raises at last.
SearchReturns(embedding, neighbors) ==
    /\ pc = "Retrieve"
    /\ future_vector = Pending
    /\ calls.embedding = "slow"
    /\ future_vector' = search(endpoint, embedding, neighbors, DefaultNumNeighbors)
    /\ calls' = [calls EXCEPT !.embedding = embedding]
    /\ UNCHANGED <<engine, pc, user_query, llm_model_name, elapsed, future_bm25,
                   retrieved_chunk_ids, retrieved_chunks, answer, ret, files_at_start, outside>>

\* _bm25_search (lines 73-86); doc_scores is bm25.get_scores(tokenized_query).
ScoredChunks(index_data, doc_scores, top_k) ==
    LET chunk_ids == index_data.chunk_ids
        zipped == [i \in 1..Len(chunk_ids) |-> <<chunk_ids[i], <<doc_scores[i], 1>>>>]
        scored_chunks == Take(SortedDesc(zipped), top_k)
    IN [i \in 1..Len(scored_chunks) |-> ScoredHit(scored_chunks[i][1], scored_chunks[i][2][1])]

\* _bm25_search testing only "not self.bm25_index_data": the sentinel dict is
\* truthy, and get_scores is then called on None.
_bm25_search_no_sentinel_check(index_data, doc_scores, top_k) ==
    IF ~index_data.loaded THEN [exc |-> "none", val |-> <<>>]
    ELSE IF ~index_data.bm25 THEN [exc |-> "AttributeError", val |-> <<>>]
    ELSE [exc |-> "none", val |-> ScoredChunks(index_data, doc_scores, top_k)]

_bm25_search(index_data, doc_scores, top_k) ==
    IF ~index_data.loaded \/ ~index_data.bm25 THEN [exc |-> "none", val |-> <<>>]
    ELSE [exc |-> "none", val |-> ScoredChunks(index_data, doc_scores, top_k)]

Bm25Task(doc_scores) ==
    /\ pc = "Retrieve"
    /\ future_bm25 = Pending
    /\ Len(doc_scores) = Len(bm25_index_data.chunk_ids)
    /\ future_bm25' = FutureOf(_bm25_search(bm25_index_data, doc_scores, DefaultTopK * 2))
    /\ calls' = [calls EXCEPT !.bm25 = @ + 1]
    /\ UNCHANGED <<engine, pc, user_query, llm_model_name, elapsed, future_vector,
                   retrieved_chunk_ids, retrieved_chunks, answer, ret, files_at_start, outside>>

EmptyResult(t) == [answer |-> NoInfoAnswer, context |-> <<>>, metadata |-> [response_time |-> t]]

\* _hybrid_search lines 68-71 and query lines 130-134: future.result() re-raises
\* the search's exception; the executor is left only when both tasks are done.
\* The two result lists are locals of _hybrid_search: they are kept for the
\* caller to look at only when query ends here.
\* Leaving the executor after the vector search alone has finished.
ResultsReady_vector_only(vector, bm25) == vector.st = "done"

\* Lines 64-69: both result() calls have returned or raised, and the with
\* block's shutdown has waited for both tasks.
ResultsReady(vector, bm25) == vector.st = "done" /\ bm25.st = "done"

Fuse ==
    /\ pc = "Retrieve"
    /\ ResultsReady(future_vector, future_bm25)
    /\ elapsed' = elapsed + 1
    /\ IF future_vector.exc # "none"
       THEN /\ ret' = RaisedToCaller(future_vector.exc)
            /\ pc' = "Done"
            /\ UNCHANGED retrieved_chunk_ids
       ELSE IF future_bm25.exc # "none"
       THEN /\ ret' = RaisedToCaller(future_bm25.exc)
            /\ pc' = "Done"
            /\ UNCHANGED retrieved_chunk_ids
       ELSE LET fused == _fuse_results(future_vector.val, future_bm25.val, DefaultTopK,
                                       DefaultVectorWeight, DefaultBm25Weight)
            IN IF fused.exc # "none"
               THEN /\ ret' = RaisedToCaller(fused.exc)
                    /\ pc' = "Done"
                    /\ UNCHANGED retrieved_chunk_ids
               ELSE IF fused.val = <<>>
               THEN /\ ret' = Returned(EmptyResult(elapsed'), "empty")
                    /\ pc' = "Done"
                    /\ UNCHANGED retrieved_chunk_ids
               ELSE /\ retrieved_chunk_ids' = fused.val
                    /\ pc' = "Materialize"
                    /\ UNCHANGED ret
    /\ IF pc' = "Materialize"
       THEN future_vector' = NoFuture /\ future_bm25' = NoFuture
       ELSE UNCHANGED <<future_vector, future_bm25>>
    /\ UNCHANGED <<engine, user_query, llm_model_name,
                   retrieved_chunks, answer, calls, files_at_start, outside>>

\* DocumentManager.get_chunks_by_ids (document_manager.py 303-313): one get per
\* id, in the order given; fetched[i] is "found", "missing" (doc.exists false)
\* or "error" (exception, logged).
\* get_chunks_by_ids with one try/except around the whole loop: any failing
\* get loses every chunk.
get_chunks_by_ids_all_or_nothing(chunk_ids, fetched) ==
    IF \E i \in 1..Len(fetched) : fetched[i] = "error" THEN <<>>
    ELSE LET found == SelectSeq([i \in 1..Len(chunk_ids) |-> i], LAMBDA i : fetched[i] = "found")
         IN [k \in 1..Len(found) |-> ChunkDoc(chunk_ids[found[k]])]

RECURSIVE get_chunks_by_ids(_, _)
get_chunks_by_ids(chunk_ids, fetched) ==
    IF chunk_ids = <<>> THEN <<>>
    ELSE (IF Head(fetched) = "found" THEN <<ChunkDoc(Head(chunk_ids))>> ELSE <<>>)
         \o get_chunks_by_ids(Tail(chunk_ids), Tail(fetched))

\* _parallel_chunk_retrieval with a worker pool: one batch per id, collected
\* as completed, the last batch completing first.
_parallel_chunk_retrieval_as_completed(chunk_ids, fetched) ==
    LET n == Len(chunk_ids)
    IN get_chunks_by_ids([i \in 1..n |-> chunk_ids[n + 1 - i]], [i \in 1..n |-> fetched[n + 1 - i]])

\* _parallel_chunk_retrieval (lines 190-215): line 196 reads self.max_workers
\* and raises AttributeError, so the except clause fetches the whole list.
_parallel_chunk_retrieval(chunk_ids, fetched) ==
    IF chunk_ids = <<>> THEN <<>>
    ELSE IF "max_workers" \notin EngineAttributes
    THEN get_chunks_by_ids(chunk_ids, fetched)
    ELSE <<>>

Materialize(fetched) ==
    /\ pc = "Materialize"
    /\ Len(fetched) = Len(retrieved_chunk_ids)
    /\ retrieved_chunks' = _parallel_chunk_retrieval(retrieved_chunk_ids, fetched)
    /\ calls' = [calls EXCEPT !.get_chunks = Append(@, retrieved_chunk_ids),
                              !.fetched = fetched]
    /\ elapsed' = elapsed + 1
    /\ pc' = "Synthesize"
    /\ UNCHANGED <<engine, user_query, llm_model_name, future_vector, future_bm25,
                   retrieved_chunk_ids, answer, ret, files_at_start, outside>>

\* query lines 138-155: the prompt is built from the chunks, the model is
\* looked up and invoked; llm.invoke on None raises AttributeError.
Synthesize(api_key_present, api) ==
    /\ pc = "Synthesize"
    /\ elapsed' = elapsed + 1
    /\ LET llm == get_model(llm_model_name, api_key_present)
       IN IF llm = "None"
          THEN /\ ret' = RaisedToCaller("AttributeError")
               /\ calls' = [calls EXCEPT !.get_model = @ + 1, !.llm = llm]
               /\ pc' = "Done"
               /\ UNCHANGED answer
          ELSE LET out == invoke(llm, api)
               IN /\ calls' = [calls EXCEPT !.get_model = @ + 1, !.llm = llm,
                                            !.invoke = Append(@, DefaultModelOf(llm)),
                                            !.api = IF llm = "openai" THEN api ELSE "notcalled"]
                  /\ IF out.exc # "none"
                     THEN /\ ret' = RaisedToCaller(out.exc)
                          /\ pc' = "Done"
                          /\ UNCHANGED answer
                     ELSE /\ answer' = out.val
                          /\ pc' = "CacheWrite"
                          /\ UNCHANGED ret
    /\ UNCHANGED <<engine, user_query, llm_model_name, future_vector, future_bm25,
                   retrieved_chunk_ids, retrieved_chunks, files_at_start, outside>>

\* query lines 147-161.
CacheWrite(write) ==
    /\ pc = "CacheWrite"
    /\ elapsed' = elapsed + 1
    /\ LET result == [answer |-> answer,
                      context |-> retrieved_chunks,
                      metadata |-> [retrieved_chunk_ids |-> retrieved_chunk_ids,
                                    llm_model_used |-> llm_model_name,
                                    response_time |-> elapsed']]
       IN /\ cache_files' = _cache_result(enable_caching, cache_files, CacheKey, result, write)
          /\ last_written' =
                IF ~enable_caching \/ write = "open_fails" THEN last_written
                ELSE IF write = "ok" THEN [last_written EXCEPT ![CacheKey] = Written(result)]
                ELSE [last_written EXCEPT ![CacheKey] = NothingWritten]
          /\ ret' = Returned(result, "pipeline")
    /\ calls' = [calls EXCEPT !.cache_write = IF enable_caching THEN @ + 1 ELSE @,
                              !.write = IF enable_caching THEN write ELSE "notcalled"]
    /\ pc' = "Done"
    /\ UNCHANGED <<enable_caching, endpoint, bm25_index_data, user_query, llm_model_name,
                   future_vector, future_bm25, retrieved_chunk_ids, retrieved_chunks, answer,
                   files_at_start, outside>>

\* The caller has the result or the exception; the engine is ready for the
\* next call.
Finish ==
    /\ pc = "Done"
    /\ pc' = "Idle"
    /\ user_query' = <<>>
    /\ llm_model_name' = ""
    /\ elapsed' = 0
    /\ future_vector' = NoFuture
    /\ future_bm25' = NoFuture
    /\ retrieved_chunk_ids' = <<>>
    /\ retrieved_chunks' = <<>>
    /\ answer' = ""
    /\ ret' = NoReturn
    /\ calls' = NoCalls
    /\ files_at_start' = cache_files
    /\ UNCHANGED <<engine, outside>>

NeighborLists == {AscendingSeq(1..k) : k \in 0..NumChunks}
Blobs == {[kind |-> k, chunk_ids |-> <<>>] : k \in {"missing", "error"}}
         \cup {[kind |-> "index", chunk_ids |-> ids] : ids \in IndexIdLists}
FetchOutcomes == {"found", "missing", "error"}
ApiOutcomes == {"raise"} \cup ModelTexts
WriteOutcomes == {"ok", "open_fails", "dump_fails"}

Next ==
    \/ \E q \in Queries, m \in ModelNames : QueryStart(q, m)
    \/ \E read_ok \in BOOLEAN : CacheCheck(read_ok)
    \/ \E blob \in Blobs : LoadIndex(blob)
    \/ \E embedding \in {"ok", "raise", "slow"}, neighbors \in NeighborLists :
          VectorTask(embedding, neighbors)
    \/ \E embedding \in {"ok", "raise"}, neighbors \in NeighborLists : SearchReturns(embedding, neighbors)
    \/ \E doc_scores \in SeqsUpTo(Scores, NumChunks) : Bm25Task(doc_scores)
    \/ Fuse
    \/ \E fetched \in SeqsUpTo(FetchOutcomes, NumChunks) : Materialize(fetched)
    \/ \E api_key_present \in BOOLEAN, api \in ApiOutcomes : Synthesize(api_key_present, api)
    \/ \E write \in WriteOutcomes : CacheWrite(write)
    \/ Finish

Spec == Init /\ [][Next]_vars

\* ------------------------------------------- _fuse_results as a pure function

ScoredHits == {ScoredHit(i, s) : i \in ChunkIds, s \in Scores}
DistanceHits == {DistanceHit(i, 1) : i \in ChunkIds}
\* What the vector search hands over: hits best first (find_neighbors returns
\* nearest first, _deduplicate_results sorts by score, descending); an id may
\* repeat. A hit of the store itself carries "distance" and no "score".
BestFirst(s) == \A i \in 1..(Len(s) - 1) : s[i].score >= s[i + 1].score
VectorHitLists ==
    {s \in SeqsUpTo(ScoredHits, MaxHits) : BestFirst(s)} \cup {<<h>> : h \in DistanceHits}
\* What _bm25_search returns: the chunks of the index, best first, chunks of
\* equal score in index order; nothing without an index.
Bm25HitLists ==
    {<<>>} \cup
    UNION {{ScoredChunks(LoadedIndex(ids), doc_scores, DefaultTopK * 2) :
               doc_scores \in [1..Len(ids) -> Scores]} : ids \in IndexIdLists}
WeightPairs == {<<DefaultVectorWeight, DefaultBm25Weight>>, <<DefaultBm25Weight, DefaultVectorWeight>>}
NotCalled == [exc |-> "notcalled", val |-> <<>>]

FuseInit ==
    /\ fz_vector \in VectorHitLists
    /\ fz_bm25 \in Bm25HitLists
    /\ fz_top_k = 0
    /\ fz_weights = <<DefaultVectorWeight, DefaultBm25Weight>>
    /\ fz_ret = NotCalled
    /\ fz_normalized = <<>>
    /\ px_bm25 = [called |-> FALSE]
    /\ px_chunks = [called |-> FALSE]
    /\ StoreIdle
    /\ ChatIdle
    /\ SideIdle
    /\ enable_caching = TRUE
    /\ endpoint = TRUE
    /\ cache_files = [k \in CacheKeys |-> AbsentFile]
    /\ last_written = [k \in CacheKeys |-> NothingWritten]
    /\ bm25_index_data = NotLoaded
    /\ pc = "Idle"
    /\ FreshLocals
    /\ files_at_start = cache_files

\* The call binds top_k and the two weights; the lists are the caller's.
\* fz_vector and fz_bm25 keep the lists as they were passed, fz_normalized
\* has them as the call left them (res["score"] /= max_score is done on the
\* caller's dicts, and normalize returns the list it was given).
FuseCall(top_k, weights) ==
    /\ fz_ret = NotCalled
    /\ fz_top_k' = top_k
    /\ fz_weights' = weights
    /\ fz_ret' = _fuse_results(fz_vector, fz_bm25, top_k, weights[1], weights[2])
    /\ fz_normalized' = IF fz_ret'.exc = "none"
                        THEN <<normalize(fz_vector).val, normalize(fz_bm25).val>>
                        ELSE <<>>
    /\ UNCHANGED <<fz_vector, fz_bm25, engine, pc, locals, pxvars, dmvars, chatvars, sidevars>>

FuseNext == \E top_k \in 0..MaxTopK, weights \in WeightPairs : FuseCall(top_k, weights)
SpecFuse == FuseInit /\ [][FuseNext]_vars

\* ------------------------------- the three functions called on their own
IndexDatas == {NotLoaded, EmptyIndex} \cup {LoadedIndex(ids) : ids \in IndexIdLists}

CallsInit ==
    /\ Init
    /\ enable_caching = TRUE
    /\ endpoint = TRUE

Bm25SearchCall(index_data, doc_scores, top_k) ==
    /\ ~px_bm25.called
    /\ Len(doc_scores) = Len(index_data.chunk_ids)
    /\ px_bm25' = [called |-> TRUE, index_data |-> index_data, top_k |-> top_k,
                   ret |-> _bm25_search(index_data, doc_scores, top_k)]
    /\ UNCHANGED <<engine, pc, locals, fzvars, px_chunks, dmvars, chatvars, sidevars>>

ChunkRetrievalCall(chunk_ids, fetched) ==
    /\ ~px_chunks.called
    /\ Len(fetched) = Len(chunk_ids)
    /\ px_chunks' = [called |-> TRUE, chunk_ids |-> chunk_ids,
                     ret |-> _parallel_chunk_retrieval(chunk_ids, fetched)]
    /\ UNCHANGED <<engine, pc, locals, fzvars, px_bm25, dmvars, chatvars, sidevars>>

CallsNext ==
    \/ \E top_k \in 0..MaxTopK, weights \in WeightPairs : FuseCall(top_k, weights)
    \/ \E index_data \in IndexDatas, doc_scores \in SeqsUpTo(Scores, NumChunks), top_k \in 0..MaxTopK :
          Bm25SearchCall(index_data, doc_scores, top_k)
    \/ \E chunk_ids \in NeighborLists, fetched \in SeqsUpTo(FetchOutcomes, NumChunks) :
          ChunkRetrievalCall(chunk_ids, fetched)

SpecCalls == CallsInit /\ [][CallsNext]_vars

\* --------------------------------------------- the merge of the breadths' hits
\* What one breadth's search returns: hits of distinct ids, scored hits best
\* first; the store's own hits carry "distance".
DistinctIds(s) == \A i, j \in 1..Len(s) : s[i].id = s[j].id => i = j
ScoredResults == {s \in SeqsUpTo(ScoredHits, MaxHits) : BestFirst(s) /\ DistinctIds(s)}
DistanceResults == {s \in SeqsUpTo(DistanceHits, MaxHits) : DistinctIds(s)}
BreadthParts ==
    [1..Len(SubmittedBreadths) -> ScoredResults] \cup [1..Len(SubmittedBreadths) -> DistanceResults]

\* _deduplicate_results called as line 183 calls it: parts are the results of
\* the breadths in the order their futures completed (a failed breadth has
\* added nothing).
DeduplicateCall(parts) ==
    /\ ~px_dedup.called
    /\ px_dedup' = [called |-> TRUE, parts |-> parts, ret |-> _deduplicate_results(Extend(parts))]
    /\ UNCHANGED <<engine, pc, locals, fzvars, pxvars, dmvars, chatvars,
                   px_keys, usage_doc, usage_start, usage_proc>>

MergeNext == ~px_dedup.called /\ \E parts \in BreadthParts : DeduplicateCall(parts)
SpecMerge == CallsInit /\ [][MergeNext]_vars

\* ------------------------------------------------------ the cache key alone
\* Tenant ids, queries and model names as strings of at most MaxStrLen pieces
\* before a fixed last piece; query accepts any string as llm_model_name and
\* looks into the cache before it resolves the name (lines 118-124).
MaxStrLen == 2
Pieces == {"x", "_"}
TenantStrings == {<<"t">>, <<"t", "_", "x">>}
QueryStrings == SeqsUpTo(Pieces, MaxStrLen)
ModelStrings == {first \o <<"gpt-4.1">> : first \in SeqsUpTo(Pieces, MaxStrLen)}

\* Two engines' queries: writer is the query whose result is cached, reader a
\* later query; each computes its key and its cache file.
KeyCall(writer, reader) ==
    /\ ~px_keys.called
    /\ px_keys' = [called |-> TRUE, writer |-> writer, reader |-> reader,
                   keys |-> <<_generate_cache_key(writer[1], writer[2], writer[3]),
                              _generate_cache_key(reader[1], reader[2], reader[3])>>,
                   files |-> <<CacheFile(writer[1], _generate_cache_key(writer[1], writer[2], writer[3])),
                               CacheFile(reader[1], _generate_cache_key(reader[1], reader[2], reader[3]))>>]
    /\ UNCHANGED <<engine, pc, locals, fzvars, pxvars, dmvars, chatvars,
                   px_dedup, usage_doc, usage_start, usage_proc>>

\* A result is cached only when the model name resolves (lines 144-159); the
\* cache is read under any name.
KeyNext ==
    /\ ~px_keys.called
    /\ \E writer \in TenantStrings \X QueryStrings \X {<<"gpt-4.1">>},
          reader \in TenantStrings \X QueryStrings \X ModelStrings : KeyCall(writer, reader)
SpecKey == CallsInit /\ [][KeyNext]_vars

\* ------------------------------------------- UsageTracker.record, concurrently
\* Every caller has its own UsageTracker (or thread); all of them write the
\* one Firestore document chat_token_usage/<email>:<day>. record reads the
\* document (line 23), adds in memory (24-29) and writes the sums back (line
\* 30); nothing ties the read to the write.
NonNegative(n) == IF n > 0 THEN n ELSE 0

\* Lines 18-23; get_ok is whether ref.get() returned. An exception ends the
\* call with False (lines 32-34).
RecordGet(p, input_tokens, output_tokens, get_ok) ==
    /\ usage_proc[p].pc = "idle"
    /\ usage_proc' = [usage_proc EXCEPT ![p] =
          IF get_ok
          THEN [pc |-> "read", input_tokens |-> input_tokens, output_tokens |-> output_tokens,
                snap |-> usage_doc]
          ELSE [pc |-> "done", input_tokens |-> input_tokens, output_tokens |-> output_tokens,
                ret |-> FALSE]]
    /\ UNCHANGED <<engine, pc, locals, fzvars, pxvars, dmvars, chatvars,
                   px_dedup, px_keys, usage_doc, usage_start>>

\* Lines 24-31; set_ok is whether ref.set(base, merge=True) succeeded.
RecordSet(p, set_ok) ==
    /\ usage_proc[p].pc = "read"
    /\ LET snap == usage_proc[p].snap
           base == UsageDoc((IF snap.exists THEN snap.input_tokens ELSE 0)
                               + NonNegative(usage_proc[p].input_tokens),
                            (IF snap.exists THEN snap.output_tokens ELSE 0)
                               + NonNegative(usage_proc[p].output_tokens))
       IN /\ usage_doc' = IF set_ok THEN base ELSE usage_doc
          /\ usage_proc' = [usage_proc EXCEPT ![p] =
                [pc |-> "done", input_tokens |-> @.input_tokens, output_tokens |-> @.output_tokens,
                 ret |-> set_ok]]
    /\ UNCHANGED <<engine, pc, locals, fzvars, pxvars, dmvars, chatvars,
                   px_dedup, px_keys, usage_start>>

UsageInit ==
    /\ usage_doc \in {NoUsageDoc} \cup {UsageDoc(i, o) : i \in 0..MaxTokens, o \in 0..MaxTokens}
    /\ usage_start = usage_doc
    /\ usage_proc = [p \in Procs |-> NotRecording]
    /\ px_dedup = [called |-> FALSE]
    /\ px_keys = [called |-> FALSE]
    /\ StoreIdle
    /\ ChatIdle
    /\ FuseIdle
    /\ enable_caching = TRUE
    /\ endpoint = TRUE
    /\ cache_files = [k \in CacheKeys |-> AbsentFile]
    /\ last_written = [k \in CacheKeys |-> NothingWritten]
    /\ bm25_index_data = NotLoaded
    /\ pc = "Idle"
    /\ FreshLocals
    /\ files_at_start = cache_files

UsageNext ==
    \/ \E p \in Procs, input_tokens \in (0 - 1)..MaxTokens, output_tokens \in (0 - 1)..MaxTokens,
          get_ok \in BOOLEAN :
          RecordGet(p, input_tokens, output_tokens, get_ok)
    \/ \E p \in Procs, set_ok \in BOOLEAN : RecordSet(p, set_ok)

SpecUsage == UsageInit /\ [][UsageNext]_vars

\* ---------------------------------- DocumentManager and the persisted index
\* The methods below are those of the first DocumentManager class of
\* document_manager.py (lines 26-232).

\* Names bound at module level in document_manager.py (imports of lines 7-24
\* and 234-246 and the class statements).
DocumentManagerModuleNames ==
    {"st", "os", "uuid", "datetime", "logging", "List", "Dict", "Any", "Optional",
     "pd", "firestore", "storage", "exceptions", "openai", "json", "pickle",
     "BM25Okapi", "DocumentProcessor", "ChunkProcessor", "EmbeddingClient",
     "TenantVectorStore", "DocumentManager"}
\* Methods of TenantVectorStore (tenant_isolation.py).
TenantVectorStoreMethods == {"__init__", "_setup_vector_search", "upsert", "search"}

\* _get_all_chunks_for_tenant: the chunk collection streamed in id order.
_get_all_chunks_for_tenant(chunks) == AscendingSeq({c \in ChunkIds : chunks[c] # NoDoc})

\* _update_bm25_index (lines 94-117): returns at line 100 without touching the
\* blob when there are no chunks; otherwise pickles chunk_ids and an index
\* over one token list per chunk; any exception is logged and swallowed.
_update_bm25_index(chunks, blob, write_ok) ==
    LET all_chunks == _get_all_chunks_for_tenant(chunks)
    IN IF all_chunks = <<>> THEN [blob |-> blob, outcome |-> "no_chunks"]
       ELSE LET tokenized_corpus == [i \in 1..Len(all_chunks) |-> all_chunks[i]]
                chunk_ids == all_chunks
            IN IF write_ok
               THEN [blob |-> IndexBlob(chunk_ids, Len(tokenized_corpus)), outcome |-> "written"]
               ELSE [blob |-> blob, outcome |-> "failed"]

\* The n smallest unused document ids stand for n fresh uuid4 values.
FreshDocs(docs, n) ==
    LET free == AscendingSeq({d \in DocIds : docs[d] = "absent"})
    IN {free[i] : i \in 1..n}

\* upload_and_process_documents (lines 55-92): each file gets a document
\* record; _enrich_chunks_concurrently reads the name "concurrent", which the
\* module never imports, so the try block ends in NameError before any chunk
\* is stored and the record's status becomes the error status. The rebuild
\* follows the loop.
upload_and_process_documents(n, write_ok) ==
    /\ pc = "Idle"
    /\ Cardinality({d \in DocIds : fs_docs[d] = "absent"}) >= n
    /\ LET new == FreshDocs(fs_docs, n)
           stored == "concurrent" \in DocumentManagerModuleNames
           rebuilt == _update_bm25_index(fs_chunks, index_blob, write_ok)
       IN /\ fs_docs' = [d \in DocIds |-> IF d \in new
                                           THEN (IF stored THEN "done" ELSE "error")
                                           ELSE fs_docs[d]]
          /\ fs_chunks' = fs_chunks
          /\ index_blob' = rebuilt.blob
          /\ dm_ret' = [op |-> "upload", files |-> n, rebuild |-> rebuilt.outcome]
    /\ UNCHANGED <<engine, pc, locals, fzvars, pxvars, chatvars, sidevars>>

\* delete_document (lines 214-232): for a document with chunks line 219 calls
\* vector_store.delete_vectors, which TenantVectorStore does not have; the
\* AttributeError is caught at line 229 and False is returned before any chunk
\* or the document is deleted and before the rebuild.
delete_document(doc_id, write_ok) ==
    /\ pc = "Idle"
    /\ LET chunk_ids == {c \in ChunkIds : fs_chunks[c] = doc_id}
       IN IF chunk_ids # {} /\ "delete_vectors" \notin TenantVectorStoreMethods
          THEN /\ dm_ret' = [op |-> "delete", doc |-> doc_id, returned |-> FALSE, rebuild |-> "not_run"]
               /\ UNCHANGED <<fs_docs, fs_chunks, index_blob>>
          ELSE LET left == [c \in ChunkIds |-> IF c \in chunk_ids THEN NoDoc ELSE fs_chunks[c]]
                   rebuilt == _update_bm25_index(left, index_blob, write_ok)
               IN /\ fs_chunks' = left
                  /\ fs_docs' = [fs_docs EXCEPT ![doc_id] = "absent"]
                  /\ index_blob' = rebuilt.blob
                  /\ dm_ret' = [op |-> "delete", doc |-> doc_id, returned |-> TRUE,
                                rebuild |-> rebuilt.outcome]
    /\ UNCHANGED <<engine, pc, locals, fzvars, pxvars, chatvars, sidevars>>

\* RAGEngine.__init__ line 36: a new engine has no index in memory.
NewEngine ==
    /\ pc = "Idle"
    /\ bm25_index_data # NotLoaded
    /\ bm25_index_data' = NotLoaded
    /\ future_bm25' = NoFuture
    /\ UNCHANGED <<enable_caching, endpoint, cache_files, last_written, pc, user_query,
                   llm_model_name, elapsed, future_vector, retrieved_chunk_ids, retrieved_chunks,
                   answer, ret, calls, files_at_start, outside>>

\* _load_bm25_index (lines 42-60) reading the persisted blob.
LoadPersistedIndex(read_ok) ==
    /\ pc = "Idle"
    /\ ~bm25_index_data.loaded
    /\ bm25_index_data' =
          IF index_blob.kind = "absent" \/ ~read_ok THEN EmptyIndex
          ELSE LoadedIndex(index_blob.chunk_ids)
    /\ future_bm25' = NoFuture
    /\ UNCHANGED <<enable_caching, endpoint, cache_files, last_written, pc, user_query,
                   llm_model_name, elapsed, future_vector, retrieved_chunk_ids, retrieved_chunks,
                   answer, ret, calls, files_at_start, outside>>

\* _bm25_search on the loaded index.
LexicalSearch(doc_scores) ==
    /\ pc = "Idle"
    /\ bm25_index_data.loaded
    /\ future_bm25 = NoFuture
    /\ Len(doc_scores) = Len(bm25_index_data.chunk_ids)
    /\ future_bm25' = FutureOf(_bm25_search(bm25_index_data, doc_scores, DefaultTopK * 2))
    /\ UNCHANGED <<engine, pc, user_query, llm_model_name, elapsed, future_vector,
                   retrieved_chunk_ids, retrieved_chunks, answer, ret, calls, files_at_start,
                   outside>>

\* A tenant's store as the manager finds it: every chunk belongs to a
\* processed document, and the blob is the index of the chunks (none when
\* there are no chunks).
IndexInit ==
    /\ fs_chunks \in [ChunkIds -> DocIds \cup {NoDoc}]
    /\ fs_docs \in [DocIds -> {"absent", "done"}]
    /\ \A c \in ChunkIds : fs_chunks[c] # NoDoc => fs_docs[fs_chunks[c]] = "done"
    /\ index_blob = _update_bm25_index(fs_chunks, AbsentBlob, TRUE).blob
    /\ dm_ret = NoDmCall
    /\ ChatIdle
    /\ SideIdle
    /\ FuseIdle
    /\ enable_caching = TRUE
    /\ endpoint = TRUE
    /\ cache_files = [k \in CacheKeys |-> AbsentFile]
    /\ last_written = [k \in CacheKeys |-> NothingWritten]
    /\ bm25_index_data = NotLoaded
    /\ pc = "Idle"
    /\ FreshLocals
    /\ files_at_start = cache_files

IndexNext ==
    \/ \E n \in 0..MaxDocs, write_ok \in BOOLEAN : upload_and_process_documents(n, write_ok)
    \/ \E doc_id \in DocIds, write_ok \in BOOLEAN : delete_document(doc_id, write_ok)
    \/ NewEngine
    \/ \E read_ok \in BOOLEAN : LoadPersistedIndex(read_ok)
    \/ \E doc_scores \in SeqsUpTo(Scores, NumChunks) : LexicalSearch(doc_scores)

SpecIndex == IndexInit /\ [][IndexNext]_vars

\* ------------------------------------------ ChatManager, session-storage mode
\* use_firestore is False: firestore.Client() raised in __init__ and the
\* sessions live in st.session_state["chat_sessions_<tenant>"], a dict from
\* session id to session data.
UserIds == {"user1"}
Roles == {"user", "assistant"}
Contents == {"Hello"}
NoSession == [exists |-> FALSE, user_id |-> "", messages |-> <<>>]
SessionData(user_id) == [exists |-> TRUE, user_id |-> user_id, messages |-> <<>>]
Message(role, content) == [role |-> role, content |-> content]

\* add_message that creates the session when it is missing.
add_message_upsert(sessions, session_id, role, content) ==
    [sessions |-> [sessions EXCEPT ![session_id] =
                     [exists |-> TRUE, user_id |-> @.user_id,
                      messages |-> Append(@.messages, Message(role, content))]],
     ret |-> TRUE]

\* add_message, lines 76-80.
add_message(sessions, session_id, role, content) ==
    IF sessions[session_id].exists
    THEN [sessions |-> [sessions EXCEPT ![session_id].messages = Append(@, Message(role, content))],
          ret |-> TRUE]
    ELSE [sessions |-> sessions, ret |-> FALSE]

\* get_session_history, lines 92-94: None for an unknown id.
get_session_history(sessions, session_id) ==
    IF sessions[session_id].exists
    THEN [none |-> FALSE, messages |-> sessions[session_id].messages]
    ELSE [none |-> TRUE, messages |-> <<>>]

\* delete_chat_session, lines 104-108.
delete_chat_session(sessions, session_id) ==
    IF sessions[session_id].exists
    THEN [sessions |-> [sessions EXCEPT ![session_id] = NoSession], ret |-> TRUE]
    ELSE [sessions |-> sessions, ret |-> FALSE]

\* create_chat_session, lines 38-55; session_id is a fresh uuid4.
CreateChatSession(session_id, user_id) ==
    /\ session_id \notin chat_issued
    /\ chat_sessions' = [chat_sessions EXCEPT ![session_id] = SessionData(user_id)]
    /\ chat_issued' = chat_issued \cup {session_id}
    /\ chat_ret' = [op |-> "create", session_id |-> session_id, before |-> chat_sessions]
    /\ UNCHANGED <<engine, pc, locals, fzvars, pxvars, dmvars, sidevars>>

AddMessage(session_id, role, content) ==
    /\ Len(chat_sessions[session_id].messages) < MaxMessages
    /\ LET r == add_message(chat_sessions, session_id, role, content)
       IN /\ chat_sessions' = r.sessions
          /\ chat_ret' = [op |-> "add", session_id |-> session_id, ret |-> r.ret,
                          message |-> Message(role, content), before |-> chat_sessions]
    /\ UNCHANGED <<chat_issued, engine, pc, locals, fzvars, pxvars, dmvars, sidevars>>

GetSessionHistory(session_id) ==
    /\ chat_ret' = [op |-> "history", session_id |-> session_id,
                    ret |-> get_session_history(chat_sessions, session_id),
                    before |-> chat_sessions]
    /\ UNCHANGED <<chat_sessions, chat_issued, engine, pc, locals, fzvars, pxvars, dmvars, sidevars>>

DeleteChatSession(session_id) ==
    /\ LET r == delete_chat_session(chat_sessions, session_id)
       IN /\ chat_sessions' = r.sessions
          /\ chat_ret' = [op |-> "delete", session_id |-> session_id, ret |-> r.ret,
                          before |-> chat_sessions]
    /\ UNCHANGED <<chat_issued, engine, pc, locals, fzvars, pxvars, dmvars, sidevars>>

ChatInit == CallsInit

ChatNext ==
    \/ \E session_id \in SessionIds, user_id \in UserIds : CreateChatSession(session_id, user_id)
    \/ \E session_id \in SessionIds, role \in Roles, content \in Contents :
          AddMessage(session_id, role, content)
    \/ \E session_id \in SessionIds : GetSessionHistory(session_id)
    \/ \E session_id \in SessionIds : DeleteChatSession(session_id)

SpecChat == ChatInit /\ [][ChatNext]_vars

\* ------------------------------------------------------------------- claims
AtDone == pc = "Done"
IdsOf(chunks) == [i \in 1..Len(chunks) |-> chunks[i].id]
NoRetrievalWork ==
    /\ calls.load = 0
    /\ calls.bm25 = 0
    /\ calls.search = <<>>
    /\ calls.get_chunks = <<>>
    /\ calls.get_model = 0
    /\ calls.invoke = <<>>

\* C1: when the vector search and the lexical search both return no hits,
\* query returns the fixed nothing-found answer with an empty context, raises
\* nothing, and calls neither get_chunks_by_ids nor the model.
C1_NoHitsGiveFixedAnswer ==
    (future_vector = Completed(<<>>) /\ future_bm25 = Completed(<<>>)) =>
        /\ pc \in {"Retrieve", "Done"}
        /\ calls.get_chunks = <<>>
        /\ calls.get_model = 0
        /\ calls.invoke = <<>>
        /\ AtDone => /\ ret.kind = "returned"
                     /\ ret.result.answer = NoInfoAnswer
                     /\ ret.result.context = <<>>

C1_Witness ==
    /\ AtDone
    /\ future_vector = Completed(<<>>)
    /\ future_bm25 = Completed(<<>>)
    /\ calls.search = <<DefaultNumNeighbors>>
    /\ ret.kind = "returned"

C3_CacheHitSkipsPipeline ==
    (AtDone /\ enable_caching /\ files_at_start[CacheKey].kind = "json"
            /\ calls.cache_read = "ok") =>
        LET entry == files_at_start[CacheKey].text[2]
        IN /\ ret.kind = "returned"
           /\ ret.from = "cache"
           /\ <<"string", ret.result.answer>> = entry.answer
           /\ [i \in 1..Len(ret.result.context) |-> JsonChunk(ret.result.context[i])]
                 = entry.context[2]
           /\ <<"string", ret.result.metadata.llm_model_used>> = entry.metadata[2].llm_model_used
           /\ ret.result.metadata.response_time = elapsed
           /\ NoRetrievalWork
           /\ calls.cache_write = 0
           /\ cache_files = files_at_start

C3_Witness ==
    /\ AtDone
    /\ enable_caching
    /\ files_at_start[CacheKey].kind = "json"
    /\ calls.cache_read = "ok"
    /\ ret.kind = "returned"
    /\ Len(ret.result.context) = 2
    /\ ret.result.metadata.response_time # files_at_start[CacheKey].text[2].metadata[2].response_time[2]

\* C4: after _cache_result has written a result under key K,
\* _get_cached_result(K) returns the answer and the context that were written;
\* a later identical query that hits the cache returns the answer and context
\* of the query that wrote the entry.
C4_CacheRoundTrip ==
    /\ (AtDone /\ calls.write = "ok") =>
          LET read == _get_cached_result(enable_caching, cache_files, CacheKey, TRUE)
          IN /\ read.found
             /\ read.val.answer = answer
             /\ read.val.context = retrieved_chunks
             /\ read.val.metadata.retrieved_chunk_ids = retrieved_chunk_ids
    /\ (AtDone /\ ret.kind = "returned" /\ ret.from = "cache") =>
          /\ last_written[CacheKey].kind = "result"
          /\ ret.result.answer = last_written[CacheKey].result.answer
          /\ ret.result.context = last_written[CacheKey].result.context

C4_Witness ==
    /\ AtDone
    /\ ret.kind = "returned"
    /\ ret.from = "cache"
    /\ Len(ret.result.context) = 2
    /\ IdsOf(ret.result.context) = <<2, 1>>

\* C5 as stated: on a cache miss where the vector search returns at least one
\* hit, query searches once with num_neighbors=5, fetches once with the whole
\* ranked id list, invokes the model once and returns the model's text with one
\* context entry per fetched chunk.
C5_VectorHitsAnswered ==
    (AtDone /\ calls.cache_read # "ok" /\ future_vector.st = "done"
            /\ future_vector.exc = "none" /\ Len(future_vector.val) >= 1) =>
        /\ ret.kind = "returned"
        /\ calls.search = <<DefaultNumNeighbors>>
        /\ calls.get_chunks = <<retrieved_chunk_ids>>
        /\ Len(calls.invoke) = 1
        /\ ret.result.answer = answer
        /\ Len(ret.result.context) = Len(retrieved_chunks)

\* C6 as stated: when get_model returns None, query returns the answer
\* "LLMの初期化に失敗しました。", invokes no model and lets no exception escape.
C6_ModelNoneGivesInitFailedAnswer ==
    (AtDone /\ calls.llm = "None") =>
        /\ ret.kind = "returned"
        /\ ret.result.answer = LLMInitFailedAnswer
        /\ calls.invoke = <<>>

\* C7: when the model's API call raises during synthesis, query still returns
\* a result with answer, context and metadata, the answer being the wrapper's
\* error string; no exception reaches query's caller.
C7_InvokeFailureGivesErrorAnswer ==
    (AtDone /\ calls.api = "raise") =>
        /\ ret.kind = "returned"
        /\ ret.result.answer = OpenAIErrorAnswer
        /\ ret.result.context = retrieved_chunks
        /\ ret.result.metadata.retrieved_chunk_ids = retrieved_chunk_ids
        /\ ret.result.metadata.llm_model_used = llm_model_name

C7_Witness ==
    /\ AtDone
    /\ calls.api = "raise"
    /\ Len(calls.invoke) = 1
    /\ ret.kind = "returned"
    /\ Len(ret.result.context) >= 1

\* C8: the id list returned by _fuse_results contains no id twice, also when
\* an id occurs in both hit lists or several times in one.
NoRepeats(ids) == \A i, j \in 1..Len(ids) : ids[i] = ids[j] => i = j
C8_FusedIdsDistinct ==
    fz_ret.exc = "none" => NoRepeats(fz_ret.val)

C8_Witness ==
    /\ fz_ret.exc = "none"
    /\ Len(fz_ret.val) = 2
    /\ Len(fz_vector) = 2
    /\ fz_vector[1].id = fz_vector[2].id
    /\ \E i \in 1..Len(fz_bm25) : fz_bm25[i].id = fz_vector[1].id

\* C9: _fuse_results returns at most top_k ids in non-increasing order of
\* fused(id) = vector_weight * (normalized vector scores of id, 0 if absent)
\*           + bm25_weight * (normalized lexical scores of id, 0 if absent),
\* and no id left out has a strictly higher fused score than a returned id.
\* The fused score is written over the common denominator
\* max_vector * max_bm25 * (denominators of the weights); an id that occurs
\* several times in one list counts each occurrence.
RECURSIVE ScoreSum(_, _)
ScoreSum(results, id) ==
    IF results = <<>> THEN 0
    ELSE (IF Head(results).id = id THEN Head(results).score ELSE 0) + ScoreSum(Tail(results), id)
Divisor(results) ==
    LET positive == {results[i].score : i \in 1..Len(results)} \ {0}
    IN IF positive = {} THEN 1 ELSE CHOOSE m \in positive : \A x \in positive : x <= m
FusedNumerator(id) ==
    fz_weights[1][1] * ScoreSum(fz_vector, id) * Divisor(fz_bm25) * fz_weights[2][2]
    + fz_weights[2][1] * ScoreSum(fz_bm25, id) * Divisor(fz_vector) * fz_weights[1][2]
InputIds == {fz_vector[i].id : i \in 1..Len(fz_vector)} \cup {fz_bm25[i].id : i \in 1..Len(fz_bm25)}
C9_FusedRankingOrdered ==
    fz_ret.exc = "none" =>
        /\ Len(fz_ret.val) <= fz_top_k
        /\ Range(fz_ret.val) \subseteq InputIds
        /\ \A i, j \in 1..Len(fz_ret.val) :
              i < j => FusedNumerator(fz_ret.val[i]) >= FusedNumerator(fz_ret.val[j])
        /\ \A x \in InputIds \ Range(fz_ret.val) : \A r \in Range(fz_ret.val) :
              FusedNumerator(x) <= FusedNumerator(r)

C9_Witness ==
    /\ fz_ret.exc = "none"
    /\ fz_top_k = 1
    /\ Len(fz_ret.val) = 1
    /\ Len(fz_vector) >= 1
    /\ fz_vector[1].id # fz_ret.val[1]
    /\ FusedNumerator(fz_vector[1].id) < FusedNumerator(fz_ret.val[1])
    /\ \E i \in 1..Len(fz_vector) : fz_vector[i].id = fz_ret.val[1]
    /\ \E i \in 1..Len(fz_bm25) : fz_bm25[i].id = fz_ret.val[1]

\* C10: the context of query's result lists the fetched chunks in the order
\* of the fused ranking.
IndexIn(ids, id) == CHOOSE i \in 1..Len(ids) : ids[i] = id
InRankingOrder(chunks, ranking) ==
    /\ \A i \in 1..Len(chunks) : chunks[i].id \in Range(ranking)
    /\ \A i, j \in 1..Len(chunks) :
          i < j => IndexIn(ranking, chunks[i].id) < IndexIn(ranking, chunks[j].id)
FetchedIndexes(outcome) == {i \in 1..Len(calls.fetched) : calls.fetched[i] = outcome}
PartialFetchFailure ==
    /\ calls.get_chunks # <<>>
    /\ FetchedIndexes("error") # {}
    /\ FetchedIndexes("found") # {}
C12_NoChunksGiveFixedAnswer ==
    (AtDone /\ calls.get_chunks # <<>> /\ retrieved_chunks = <<>> /\ calls.llm = "openai") =>
        /\ ret.kind = "returned"
        /\ ret.result.answer = NoInfoAnswer
        /\ ret.result.context = <<>>
        /\ calls.invoke = <<>>

\* C13: a cache read that fails (unreadable or corrupt file) is a miss: query
\* raises nothing for it, returns nothing from the cache and runs the
\* pipeline from the index load on; a cache write that fails still hands the
\* computed result to the caller.
PipelineExceptions == {EmbeddingAPIError, "KeyError", "AttributeError"}
ComputedResult ==
    [answer |-> answer, context |-> retrieved_chunks,
     metadata |-> [retrieved_chunk_ids |-> retrieved_chunk_ids,
                   llm_model_used |-> llm_model_name,
                   response_time |-> elapsed]]
C13_CacheErrorsNotFatal ==
    /\ (calls.cache_read = "error") =>
          /\ pc = "LoadIndex" \/ calls.load = 1
          /\ (ret.kind = "returned") => (ret.from # "cache")
          /\ (ret.kind = "raised") => (ret.exc \in PipelineExceptions)
          /\ (AtDone /\ ret.kind = "returned") => (calls.search = <<DefaultNumNeighbors>> /\ calls.bm25 = 1)
    /\ (calls.write \in {"open_fails", "dump_fails"}) =>
          /\ AtDone
          /\ ret = Returned(ComputedResult, "pipeline")

C13_Witness ==
    /\ AtDone
    /\ calls.cache_read = "error"
    /\ calls.write = "dump_fails"
    /\ ret.kind = "returned"
    /\ ret.result.answer \in ModelTexts
    /\ Len(ret.result.context) = 1

\* C14 as stated: after an upload or a deletion whose rebuild ran to its end,
\* the persisted index lists exactly the tenant's chunks, one token list per
\* chunk; when the tenant has no chunks the persisted index is the empty
\* sentinel, and a lexical search on the index loaded from it returns no hits.
EmptySentinelBlob == [kind |-> "sentinel"]
C14_IndexTracksChunkSet ==
    (dm_ret.op \in {"upload", "delete"} /\ dm_ret.rebuild \in {"no_chunks", "written"}) =>
        IF _get_all_chunks_for_tenant(fs_chunks) = <<>>
        THEN /\ index_blob = EmptySentinelBlob
             /\ (future_bm25.st = "done") => (future_bm25.val = <<>>)
        ELSE /\ index_blob.kind = "index"
             /\ index_blob.chunk_ids = _get_all_chunks_for_tenant(fs_chunks)
             /\ index_blob.corpus_len = Len(index_blob.chunk_ids)

\* C15 as stated: after normalization every score of a list of non-negative
\* scores lies in [0,1], and in every non-empty list the maximum-scoring hit
\* has the score 1.
InUnitInterval(x) == FracLeq(Zero, x) /\ FracLeq(x, One)
RawMax(results) == MaxOf([i \in 1..Len(results) |-> results[i].score])
FuseInputs == <<fz_vector, fz_bm25>>
C15_MaxNormalizesToOne ==
    (fz_ret.exc = "none") =>
        \A k \in 1..2 :
            /\ \A i \in 1..Len(fz_normalized[k]) : InUnitInterval(fz_normalized[k][i].score)
            /\ \A i \in 1..Len(FuseInputs[k]) :
                  (FuseInputs[k][i].score = RawMax(FuseInputs[k])) => (fz_normalized[k][i].score = One)

\* C15 amended: after normalization every score of a list of non-negative
\* scores lies in [0,1]; in a non-empty list whose maximum is positive the
\* maximum-scoring hits have the score 1; in a list whose scores are all 0
\* every score stays 0.
C15_NormalizedWithinUnitInterval ==
    (fz_ret.exc = "none") =>
        \A k \in 1..2 :
            /\ Len(fz_normalized[k]) = Len(FuseInputs[k])
            /\ \A i \in 1..Len(fz_normalized[k]) :
                  /\ InUnitInterval(fz_normalized[k][i].score)
                  /\ fz_normalized[k][i].id = FuseInputs[k][i].id
            /\ \A i \in 1..Len(FuseInputs[k]) :
                  IF RawMax(FuseInputs[k]) > 0
                  THEN (FuseInputs[k][i].score = RawMax(FuseInputs[k]))
                          <=> (fz_normalized[k][i].score = One)
                  ELSE fz_normalized[k][i].score = Zero

C15_Witness ==
    /\ fz_ret.exc = "none"
    /\ Len(fz_vector) = 2
    /\ fz_vector[1].score = 2
    /\ fz_vector[2].score = 1
    /\ fz_normalized[1][2].score = <<1, 2>>
    /\ Len(fz_bm25) = 1
    /\ fz_bm25[1].score = 0
    /\ fz_normalized[2][1].score = Zero

\* C16: _fuse_results on two empty hit lists returns the empty list for every
\* top_k and every pair of weights; _bm25_search on the empty-index sentinel
\* returns the empty list for every top_k; _parallel_chunk_retrieval on an
\* empty id list returns the empty list; none of the three raises.
C16_EmptyInputsGiveEmptyLists ==
    /\ (fz_ret.exc # "notcalled" /\ fz_vector = <<>> /\ fz_bm25 = <<>>) =>
          fz_ret = [exc |-> "none", val |-> <<>>]
    /\ (px_bm25.called /\ px_bm25.index_data = EmptyIndex) =>
          px_bm25.ret = [exc |-> "none", val |-> <<>>]
    /\ (px_chunks.called /\ px_chunks.chunk_ids = <<>>) => px_chunks.ret = <<>>

C16_Witness ==
    /\ fz_ret.exc = "none"
    /\ fz_vector = <<>>
    /\ fz_bm25 = <<>>
    /\ fz_top_k = MaxTopK
    /\ px_bm25.called
    /\ px_bm25.index_data = EmptyIndex
    /\ px_bm25.top_k = MaxTopK
    /\ px_chunks.called
    /\ px_chunks.chunk_ids = <<>>

\* C17: for an id that occurs only in the vector hits and an id that occurs
\* only in the lexical hits with an equal normalized score, calling
\* _fuse_results again with a larger vector_weight and the same bm25_weight
\* never puts the lexical-only id above the vector-only id when the
\* vector-only id was above it before. An id is above another when it is in
\* the output and the other is absent or comes later.
VectorWeights == {DefaultBm25Weight, DefaultVectorWeight, One}
HigherVectorWeights == {w \in VectorWeights : FracLess(fz_weights[1], w)}
Above(out, x, y) ==
    /\ x \in Range(out)
    /\ (y \in Range(out)) => (IndexIn(out, x) < IndexIn(out, y))
IdsIn(results) == {results[i].id : i \in 1..Len(results)}
VectorOnly == IdsIn(fz_vector) \ IdsIn(fz_bm25)
LexicalOnly == IdsIn(fz_bm25) \ IdsIn(fz_vector)
\* normalized scores of a and b are equal: cross-multiplied by the two maxima.
EqualNormalized(a, b) ==
    ScoreSum(fz_vector, a) * Divisor(fz_bm25) = ScoreSum(fz_bm25, b) * Divisor(fz_vector)
FusedAgain(w) == _fuse_results(fz_vector, fz_bm25, fz_top_k, w, fz_weights[2]).val
C17_VectorWeightMonotone ==
    (fz_ret.exc = "none") =>
        \A w \in HigherVectorWeights : \A a \in VectorOnly : \A b \in LexicalOnly :
            (EqualNormalized(a, b) /\ Above(fz_ret.val, a, b)) => ~Above(FusedAgain(w), b, a)

C17_Witness ==
    /\ fz_ret.exc = "none"
    /\ fz_top_k = 2
    /\ \E w \in HigherVectorWeights : \E a \in VectorOnly : \E b \in LexicalOnly :
          /\ EqualNormalized(a, b)
          /\ ScoreSum(fz_vector, a) > 0
          /\ Above(fz_ret.val, b, a)
          /\ Above(FusedAgain(w), a, b)
          /\ b \in Range(FusedAgain(w))

\* C18: in session-storage mode, add_message on an existing session returns
\* True, appends exactly one message at the end of that session's history and
\* leaves every other session as it was; add_message on a session that was
\* never created or has been deleted returns False and changes no session;
\* after delete_chat_session returned True the session is absent, and
\* get_session_history returns None for an absent session.
C18_SessionStorageContract ==
    /\ (chat_ret.op = "add" /\ chat_ret.before[chat_ret.session_id].exists) =>
          /\ chat_ret.ret = TRUE
          /\ chat_sessions[chat_ret.session_id].messages
                = Append(chat_ret.before[chat_ret.session_id].messages, chat_ret.message)
          /\ \A s \in SessionIds \ {chat_ret.session_id} : chat_sessions[s] = chat_ret.before[s]
    /\ (chat_ret.op = "add" /\ ~chat_ret.before[chat_ret.session_id].exists) =>
          /\ chat_ret.ret = FALSE
          /\ chat_sessions = chat_ret.before
    /\ (chat_ret.op = "delete" /\ chat_ret.ret = TRUE) =>
          /\ ~chat_sessions[chat_ret.session_id].exists
          /\ get_session_history(chat_sessions, chat_ret.session_id).none
    /\ (chat_ret.op = "history" /\ ~chat_sessions[chat_ret.session_id].exists) => chat_ret.ret.none
    /\ (chat_ret.op = "history" /\ chat_sessions[chat_ret.session_id].exists) =>
          /\ ~chat_ret.ret.none
          /\ chat_ret.ret.messages = chat_sessions[chat_ret.session_id].messages

C18_Witness ==
    /\ chat_ret.op = "add"
    /\ chat_ret.ret = FALSE
    /\ chat_ret.session_id \in chat_issued
    /\ \E s \in SessionIds : Len(chat_sessions[s].messages) = 2

\* C19: a query run that misses the cache takes its steps in the order
\* index load, Retrieve, Fuse, Materialize, Synthesize, CacheWrite: fusion
\* starts only when the vector search and the lexical search have both
\* completed or raised, chunks are fetched only after both searches ran, the
\* model is looked up and invoked only after the chunk fetch has returned,
\* the cache is written only after the model's answer is there, and the run
\* ends with exactly one outcome: a result of the pipeline (Done), the
\* nothing-found result (Empty) or an exception (Failed).
PcEdges ==
    {<<"Idle", "CacheCheck">>, <<"CacheCheck", "Done">>, <<"CacheCheck", "LoadIndex">>,
     <<"LoadIndex", "Retrieve">>, <<"Retrieve", "Materialize">>, <<"Retrieve", "Done">>,
     <<"Materialize", "Synthesize">>, <<"Synthesize", "CacheWrite">>, <<"Synthesize", "Done">>,
     <<"CacheWrite", "Done">>, <<"Done", "Idle">>}
BothSearchesCalled == calls.search # <<>> /\ calls.bm25 = 1
C19_Step ==
    /\ (pc' # pc) => (<<pc, pc'>> \in PcEdges)
    /\ (pc = "Retrieve" /\ pc' # "Retrieve") =>
          /\ future_vector.st = "done"
          /\ future_bm25.st = "done"
          /\ BothSearchesCalled
    /\ (Len(calls'.get_chunks) > Len(calls.get_chunks)) =>
          /\ pc = "Materialize"
          /\ BothSearchesCalled
          /\ retrieved_chunk_ids # <<>>
    /\ (calls'.get_model > calls.get_model \/ Len(calls'.invoke) > Len(calls.invoke)) =>
          /\ pc = "Synthesize"
          /\ Len(calls.get_chunks) = 1
    /\ (cache_files' # cache_files \/ calls'.cache_write > calls.cache_write) =>
          /\ pc = "CacheWrite"
          /\ Len(calls.invoke) = 1
          /\ answer # ""
    /\ (pc # "Done" /\ pc' = "Done" /\ calls'.cache_read # "ok") =>
          \/ ret'.kind = "returned" /\ ret'.from = "pipeline" /\ pc = "CacheWrite"
          \/ ret'.kind = "returned" /\ ret'.from = "empty" /\ pc = "Retrieve"
          \/ ret'.kind = "raised" /\ pc \in {"Retrieve", "Synthesize"}
C19_StepsInOrder == [][C19_Step]_vars

C19_Witness ==
    /\ AtDone
    /\ calls.cache_read = "absent"
    /\ calls.load = 1
    /\ BothSearchesCalled
    /\ Len(calls.get_chunks) = 1
    /\ Len(calls.invoke) = 1
    /\ calls.cache_write = 1
    /\ ret.kind = "returned"
    /\ ret.from = "pipeline"

\* C20 as stated: _parallel_vector_search searches with the three breadths
\* 5, 3 and 7; when the call of one breadth raises while another succeeds,
\* the merged result holds the hits of the breadths that succeeded and no
\* exception reaches the caller of _parallel_vector_search.
Breadths == {5, 3, 7}
BreadthsFailed == IF calls.embedding = "raise" THEN Range(calls.search) ELSE {}
BreadthsSucceeded == Range(calls.search) \ BreadthsFailed
C20_FanOutToleratesFailure ==
    (future_vector.st = "done") =>
        /\ Range(calls.search) = Breadths
        /\ (BreadthsFailed # {} /\ BreadthsSucceeded # {}) => (future_vector.exc = "none")

\* C21 as stated: when the call of every breadth of the fan-out has failed,
\* _parallel_vector_search makes one synchronous retry with the default
\* breadth, and a failure reaches its caller only after that retry has failed
\* too: a failed vector search has been preceded by the calls of the three
\* breadths, and the last call made is the retry with 5 neighbours.
C21_RetryBeforeFailure ==
    (future_vector.st = "done" /\ future_vector.exc # "none") =>
        /\ Len(calls.search) = Cardinality(Breadths) + 1
        /\ Range(SubSeq(calls.search, 1, Cardinality(Breadths))) = Breadths
        /\ calls.search[Len(calls.search)] = DefaultNumNeighbors

\* C22 as stated: when a branch of the vector-search fan-out has not finished
\* within the timeout, the fan-out does not wait for it: its output is there,
\* holding the results of the branches that completed, and no exception.
C22_SlowBranchDoesNotBlock ==
    (pc = "Retrieve" /\ calls.embedding = "slow") =>
        /\ future_vector.st = "done"
        /\ future_vector.exc = "none"

\* C23 as stated: the merge of the breadths' results holds, for every id that
\* any breadth returned, one hit with the best score any breadth reported for
\* that id, sorted by score, cut to the final top-k; the merged list is the
\* same for every order in which the breadths complete.
PartsHits(parts) == UNION {Range(parts[k]) : k \in 1..Len(parts)}
BestReported(parts, id) ==
    LET reported == {ScoreOrZero(h) : h \in {x \in PartsHits(parts) : x.id = id}}
    IN CHOOSE m \in reported : \A x \in reported : x <= m
Merged(parts) == Take(_deduplicate_results(Extend(parts)), MergeTopK)
Reordered(parts, perm) == [k \in 1..Len(parts) |-> parts[perm[k]]]
C23_MergeKeepsBestInAnyOrder ==
    px_dedup.called =>
        LET merged == Take(px_dedup.ret, MergeTopK)
            ids == {h.id : h \in PartsHits(px_dedup.parts)}
        IN /\ DistinctIds(merged)
           /\ Len(merged) = IF Cardinality(ids) < MergeTopK THEN Cardinality(ids) ELSE MergeTopK
           /\ \A i \in 1..Len(merged) :
                 /\ merged[i].id \in ids
                 /\ ScoreOrZero(merged[i]) = BestReported(px_dedup.parts, merged[i].id)
           /\ \A i, j \in 1..Len(merged) : i < j => ScoreOrZero(merged[i]) >= ScoreOrZero(merged[j])
           /\ \A perm \in Permutations(1..Len(px_dedup.parts)) :
                 Merged(Reordered(px_dedup.parts, perm)) = merged

\* C24 as stated: two ids of equal fused score come out of _fuse_results in
\* ascending order of their id strings ("c1" before "c2"), whatever the order
\* of their hits in the two input lists; an id left out by top_k has no
\* smaller id string than a returned id of the same fused score.
C24_TiesOrderedById ==
    (fz_ret.exc = "none") =>
        /\ \A i, j \in 1..Len(fz_ret.val) :
              (i < j /\ FusedNumerator(fz_ret.val[i]) = FusedNumerator(fz_ret.val[j]))
                 => fz_ret.val[i] < fz_ret.val[j]
        /\ \A x \in InputIds \ Range(fz_ret.val) : \A i \in 1..Len(fz_ret.val) :
              (FusedNumerator(x) = FusedNumerator(fz_ret.val[i])) => fz_ret.val[i] < x

\* C25 as stated: a cache entry is shared only by queries of the same
\* tenant, the same query string and the same model name: two queries that
\* differ in any of the three have different cache files, and within one
\* tenant two distinct (query, model) pairs never have the same key.
C25_CacheKeySeparatesQueries ==
    px_keys.called =>
        /\ (px_keys.files[1] = px_keys.files[2]) => (px_keys.writer = px_keys.reader)
        /\ (px_keys.writer[1] = px_keys.reader[1] /\ px_keys.keys[1] = px_keys.keys[2])
              => (px_keys.writer = px_keys.reader)

\* C26 as stated: no cache file holds a result whose answer is the error
\* string of a failed model invocation, and no query is answered from the
\* cache with that error string: after a failed synthesis the next identical
\* query runs the pipeline again.
C26_ErrorAnswersNotCached ==
    /\ \A k \in CacheKeys :
          (cache_files[k].kind = "json") => (json_load(cache_files[k].text).answer # OpenAIErrorAnswer)
    /\ (AtDone /\ ret.kind = "returned" /\ ret.from = "cache") =>
          (ret.result.answer # OpenAIErrorAnswer)

\* C27 as stated: for a model name that LLMFactory resolves, the model that
\* query invokes is the one named by llm_model_name, so the llm_model_used of
\* the result names the model that produced the answer.
C27_InvokedModelIsNamedModel ==
    (AtDone /\ calls.invoke # <<>>) =>
        /\ calls.invoke = <<llm_model_name>>
        /\ (ret.kind = "returned") => (ret.result.metadata.llm_model_used = calls.invoke[1])

\* C28 as stated: when the two searches have returned, the fused ranking
\* holds only ids that a vector hit mentions or whose lexical score is
\* positive, and query returns the fixed nothing-found answer when there is no
\* such id, also when a non-empty lexical index is loaded.
PositiveLexicalIds == {future_bm25.val[i].id : i \in {j \in 1..Len(future_bm25.val) : future_bm25.val[j].score > 0}}
C28_Step ==
    (pc = "Retrieve" /\ pc' # "Retrieve" /\ future_vector.exc = "none" /\ future_bm25.exc = "none"
        /\ ret'.kind # "raised") =>
        /\ Range(retrieved_chunk_ids') \subseteq (IdsIn(future_vector.val) \cup PositiveLexicalIds)
        /\ (IdsIn(future_vector.val) \cup PositiveLexicalIds = {}) =>
              /\ ret'.kind = "returned"
              /\ ret'.from = "empty"
              /\ ret'.result.answer = NoInfoAnswer
C28_ZeroScoresNeverRanked == [][C28_Step]_vars

\* C29 as stated: _fuse_results leaves its arguments unchanged: after the
\* call every hit of the vector list and of the lexical list has the id and
\* the score it had before the call.
C29_ArgumentsUnchanged ==
    (fz_ret.exc = "none") =>
        \A k \in 1..2 :
            /\ Len(fz_normalized[k]) = Len(FuseInputs[k])
            /\ \A i \in 1..Len(FuseInputs[k]) :
                  /\ fz_normalized[k][i].id = FuseInputs[k][i].id
                  /\ fz_normalized[k][i].score = Frac(FuseInputs[k][i].score, 1)

\* C30 as stated: whatever the interleaving of the record calls for one
\* email and day, the stored input_tokens and output_tokens are the values
\* stored before the calls plus the non-negative amounts of all calls that
\* have returned True.
RECURSIVE RecordedSum(_, _)
RecordedSum(ps, field) ==
    IF ps = {} THEN 0
    ELSE LET p == CHOOSE x \in ps : TRUE
         IN (IF usage_proc[p].pc = "done" /\ usage_proc[p].ret
             THEN NonNegative(usage_proc[p][field]) ELSE 0)
            + RecordedSum(ps \ {p}, field)
C30_NoRecordedUsageLost ==
    /\ usage_doc.input_tokens = usage_start.input_tokens + RecordedSum(Procs, "input_tokens")
    /\ usage_doc.output_tokens = usage_start.output_tokens + RecordedSum(Procs, "output_tokens")
====
